---- MODULE Spec2Model ----
(***************************************************************************)
(* Localization service of the engine (Source/Engine/Localization/         *)
(* Localization.cpp): the current culture and language, the configured     *)
(* list of localized string tables, and the resolution pass                *)
(* (LocalizationService::OnLocalizationChanged) that picks the tables of   *)
(* one locale for the current language.                                    *)
(***************************************************************************)
EXTENDS Integers, Sequences, FiniteSets, TLC

(***************************************************************************)
(* Bounds of the model.                                                    *)
(***************************************************************************)
\* Longest configured table list of the resolution specification.
MaxTables == 3
\* Longest configured table list of the program specification.
MaxConfigured == 1
\* Longest configured table list of the fixed-settings specification.
MaxFixed == 2
\* Longest configured table list of the statement-by-statement specifications.
MaxStepTables == 2

(***************************************************************************)
(* The culture facility (CultureInfo): a culture is its LCID; the facility *)
(* gives its name and the LCID of its parent culture.                      *)
(***************************************************************************)
LCID_None == 0
LCID_Invariant == 127
LCID_en == 9
LCID_enGB == 2057
LCID_fr == 12
LCID_zhCN == 2052
LCID_zhSG == 4100
LCID_zhHans == 4
LCID_zh == 30724

\* Every LCID the facility knows, and the empty culture CultureInfo(0).
KnownLCIDs ==
    {LCID_None, LCID_Invariant, LCID_en, LCID_enGB, LCID_fr, LCID_zhCN,
     LCID_zhSG, LCID_zhHans, LCID_zh}

\* CultureInfo::GetName: the locale name of a culture; empty for the empty
\* and the invariant culture.
GetName(lcid) ==
    CASE lcid = LCID_en -> "en"
      [] lcid = LCID_enGB -> "en-GB"
      [] lcid = LCID_fr -> "fr"
      [] lcid = LCID_zhCN -> "zh-CN"
      [] lcid = LCID_zhSG -> "zh-SG"
      [] lcid = LCID_zhHans -> "zh-Hans"
      [] lcid = LCID_zh -> "zh"
      [] OTHER -> ""

\* CultureInfo::GetParentLCID: the parent culture; a neutral culture's parent
\* is the invariant culture, whose name is empty.
GetParentLCID(lcid) ==
    CASE lcid = LCID_enGB -> LCID_en
      [] lcid = LCID_zhCN -> LCID_zhHans
      [] lcid = LCID_zhSG -> LCID_zhHans
      [] lcid = LCID_zhHans -> LCID_zh
      [] lcid = LCID_en -> LCID_Invariant
      [] lcid = LCID_fr -> LCID_Invariant
      [] lcid = LCID_zh -> LCID_Invariant
      [] OTHER -> LCID_None

\* CultureInfo(name): the culture of a locale name; a name the facility does
\* not know gives the invariant culture.
CultureFromName(name) ==
    IF \E lcid \in KnownLCIDs : name # "" /\ GetName(lcid) = name
    THEN CHOOSE lcid \in KnownLCIDs : GetName(lcid) = name
    ELSE LCID_Invariant

\* CultureInfo::operator==: cultures are compared by LCID.
CultureEquals(a, b) == a = b

\* String::HasChars.
HasChars(str) == str # ""

(***************************************************************************)
(* Localized string table assets.  Every asset carries one locale.         *)
(***************************************************************************)
Assets == {"en_a", "en_b", "zhCN", "zhHans", "zh", "blank"}

\* An unset asset reference of the settings (AssetReference::Get gives null).
Null == "null"

Entries == Assets \cup {Null}

\* LocalizedStringTable::Locale.
Locale(asset) ==
    CASE asset = "en_a" -> "en"
      [] asset = "en_b" -> "en"
      [] asset = "zhCN" -> "zh-CN"
      [] asset = "zhHans" -> "zh-Hans"
      [] asset = "zh" -> "zh"
      [] OTHER -> ""

\* Values the callers pass to the setters.
Cultures == {LCID_enGB, LCID_zhCN, LCID_zhSG, LCID_fr}

\* Locale names Platform::GetUserLocaleName may report ("tlh" is a name the
\* culture facility does not know).
UserLocaleNames == {"en-GB", "zh-CN", "tlh"}

\* The lists of at most n entries.
ListsUpTo(n) == UNION {[1..k -> Entries] : k \in 0..n}

\* The lists of at most n entries drawn from `entries`.
ListsOver(entries, n) == UNION {[1..k -> entries] : k \in 0..n}

\* The assets a configured list refers to.
Referenced(cfg) == {cfg[i] : i \in DOMAIN cfg} \ {Null}

VARIABLES
    CurrentCulture,         \* Instance.CurrentCulture (an LCID)
    CurrentLanguage,        \* Instance.CurrentLanguage (an LCID)
    LocalizedStringTables,  \* Instance.LocalizedStringTables: the active set
    settingsTables,         \* LocalizationSettings::LocalizedStringTables
    failed,                 \* the assets whose WaitForLoaded reports a failure
    initialized,            \* LocalizationService::Init has run
    call,                   \* the operation called last
    passes,                 \* resolution passes run by the last call
    notifications,          \* LocalizationChanged events sent by the last call
    observed,               \* the active set a subscriber saw at the last event
    pc,                     \* the position of the thread inside the pass
    idx,                    \* the loop's position in the configured list
    tables,                 \* the local mapping locale -> tables of the pass
    pending,                \* the assets whose load has not finished
    reads                   \* what a concurrent reader saw during the pass

vars ==
    <<CurrentCulture, CurrentLanguage, LocalizedStringTables, settingsTables,
      failed, initialized, call, passes, notifications, observed,
      pc, idx, tables, pending, reads>>

\* The state of a pass in progress and of the loads in progress.
stepVars == <<pc, idx, tables, pending, reads>>

(***************************************************************************)
(* The resolution pass, LocalizationService::OnLocalizationChanged.        *)
(***************************************************************************)

\* Array::Clear of the active set.
\* (ClearKeep: the variant that forgets to clear.)
ClearKeep(active) == active
Clear(active) == <<>>

\* The loop's condition: the reference is set and the asset loaded
\* (WaitForLoaded returns true on failure).
\* (IsLoadedDespiteFailure: the variant that takes a failed load for a
\* loaded table.)
IsLoadedDespiteFailure(e, fail) == e # Null
IsLoaded(e, fail) == e # Null /\ e \notin fail

\* tables[table->Locale].Add(table): the bucket of the locale, created empty
\* on first use, gets the table appended.
\* (AddTablePrepend: the variant that inserts at the front.)
AddTablePrepend(pool, e) ==
    LET key == Locale(e)
        old == IF key \in DOMAIN pool THEN pool[key] ELSE <<>>
    IN  [k \in DOMAIN pool \cup {key} |->
            IF k = key THEN <<e>> \o old ELSE pool[k]]
AddTable(pool, e) ==
    LET key == Locale(e)
        old == IF key \in DOMAIN pool THEN pool[key] ELSE <<>>
    IN  [k \in DOMAIN pool \cup {key} |->
            IF k = key THEN Append(old, e) ELSE pool[k]]

\* The loop over settings.LocalizedStringTables from entry i on.
RECURSIVE CollectFrom(_, _, _, _)
CollectFrom(cfg, fail, i, pool) ==
    IF i > Len(cfg) THEN pool
    ELSE CollectFrom(cfg, fail, i + 1,
            IF IsLoaded(cfg[i], fail) THEN AddTable(pool, cfg[i]) ELSE pool)

\* The mapping locale -> tables of one pass.
\* (CollectTablesKeep: the variant whose mapping is not rebuilt from scratch
\* but still holds the bucket picked by the pass before.)
CollectTablesKeep(cfg, fail) ==
    CollectFrom(cfg, fail, 1,
        IF LocalizedStringTables = <<>> THEN <<>>
        ELSE [k \in {Locale(LocalizedStringTables[1])} |-> LocalizedStringTables])
CollectTables(cfg, fail) == CollectFrom(cfg, fail, 1, <<>>)

\* Dictionary::TryGet: the bucket of a key, or none.
NoTable == [found |-> FALSE, key |-> ""]
TryGet(pool, key) ==
    IF key \in DOMAIN pool THEN [found |-> TRUE, key |-> key] ELSE NoTable

\* Pick localization tables for a current language: the language's own
\* bucket, else its parent culture's, else English.
\* (Variants: without the parent tier, with the parent tier first, with a
\* sibling tier, with a grandparent tier.)
PickTableNoParent(pool, language) ==
    LET exact == TryGet(pool, GetName(language))
    IN  IF exact.found THEN exact
        ELSE TryGet(pool, GetName(CultureFromName("en")))
PickTableSibling(pool, language) ==
    LET exact == TryGet(pool, GetName(language))
        parentLanguage == GetParentLCID(language)
        parent == IF HasChars(GetName(parentLanguage))
                  THEN TryGet(pool, GetName(parentLanguage))
                  ELSE NoTable
        related == {k \in DOMAIN pool :
                        /\ HasChars(GetName(parentLanguage))
                        /\ GetParentLCID(CultureFromName(k)) = parentLanguage}
    IN  IF exact.found THEN exact
        ELSE IF parent.found THEN parent
        ELSE IF related # {} THEN TryGet(pool, CHOOSE k \in related : TRUE)
        ELSE TryGet(pool, GetName(CultureFromName("en")))
PickTableParentFirst(pool, language) ==
    LET exact == TryGet(pool, GetName(language))
        parentLanguage == GetParentLCID(language)
        parent == IF HasChars(GetName(parentLanguage))
                  THEN TryGet(pool, GetName(parentLanguage))
                  ELSE NoTable
    IN  IF parent.found THEN parent
        ELSE IF exact.found THEN exact
        ELSE TryGet(pool, GetName(CultureFromName("en")))
PickTableAncestors(pool, language) ==
    LET exact == TryGet(pool, GetName(language))
        parentLanguage == GetParentLCID(language)
        parent == IF HasChars(GetName(parentLanguage))
                  THEN TryGet(pool, GetName(parentLanguage))
                  ELSE NoTable
        grand == TryGet(pool, GetName(GetParentLCID(parentLanguage)))
    IN  IF exact.found THEN exact
        ELSE IF parent.found THEN parent
        ELSE IF grand.found THEN grand
        ELSE TryGet(pool, GetName(CultureFromName("en")))
PickTable(pool, language) ==
    LET exact == TryGet(pool, GetName(language))
        parentLanguage == GetParentLCID(language)
        parent == IF HasChars(GetName(parentLanguage))
                  THEN TryGet(pool, GetName(parentLanguage))
                  ELSE NoTable
    IN  IF exact.found THEN exact
        ELSE IF parent.found THEN parent
        ELSE TryGet(pool, GetName(CultureFromName("en")))

\* Apply localization table: the picked bucket's tables are added to the
\* active set; nothing is added when no bucket was picked.
ApplyTable(active, pool, table) ==
    IF table.found THEN active \o pool[table.key] ELSE active

\* The active set after a pass over the configured list cfg.
Resolve(active, cfg, fail, language) ==
    LET pool == CollectTables(cfg, fail)
    IN  ApplyTable(Clear(active), pool, PickTable(pool, language))

\* Send event: Localization::LocalizationChanged() runs after the active set
\* is applied, whether or not a bucket was picked; the subscribers see the
\* set `after`.  The result is <<events sent, set seen>>.
\* (Variants: the event sent only when a bucket was picked, the event sent
\* before the set is applied, and the event sent only when the set changed.)
SendEventIfChanged(seen, before, after) ==
    IF after # before THEN <<1, after>> ELSE <<0, seen>>
SendEventIfPicked(seen, before, after) ==
    IF after # <<>> THEN <<1, after>> ELSE <<0, seen>>
SendEventBeforeApply(seen, before, after) == <<1, before>>
SendEvent(seen, before, after) == <<1, after>>

\* One whole pass, for the current language `language`.
OnLocalizationChanged(language) ==
    LET after == Resolve(LocalizedStringTables, settingsTables, failed, language)
        event == SendEvent(observed, LocalizedStringTables, after)
    IN  /\ passes' = 1
        /\ LocalizedStringTables' = after
        /\ notifications' = event[1]
        /\ observed' = event[2]
        /\ UNCHANGED <<settingsTables, failed, stepVars>>

\* A call that returns before the pass.
NoPass ==
    /\ passes' = 0
    /\ notifications' = 0
    /\ UNCHANGED <<LocalizedStringTables, observed, settingsTables, failed,
                   stepVars>>

(***************************************************************************)
(* The operations.                                                         *)
(***************************************************************************)

\* LocalizationSettings::Apply.
Apply ==
    /\ call' = "Apply"
    /\ OnLocalizationChanged(CurrentLanguage)
    /\ UNCHANGED <<CurrentCulture, CurrentLanguage, initialized>>

\* The references the settings files hold.
SettingsEntries == {"en_a", "zhCN", "zhHans", Null}

\* LocalizationSettings::Deserialize: the configured list is read from the
\* stream.  The list read differs from the current one by one reference
\* added or removed; every list is reached by a run of such loads.  Load
\* outcomes are kept for the referenced assets only.
Deserialize(maxLen) ==
    /\ \E cfg \in {Append(settingsTables, e) : e \in SettingsEntries}
               \cup {SubSeq(settingsTables, 1, i - 1)
                        \o SubSeq(settingsTables, i + 1, Len(settingsTables)) :
                     i \in DOMAIN settingsTables} :
        /\ Len(cfg) <= maxLen
        /\ settingsTables' = cfg
        /\ failed' = failed \cap Referenced(cfg)
    /\ call' = "Deserialize"
    /\ passes' = 0
    /\ notifications' = 0
    /\ UNCHANGED <<CurrentCulture, CurrentLanguage, LocalizedStringTables,
                   initialized, observed, stepVars>>

\* The content system: the load of a referenced asset starts to fail, or to
\* succeed again (what table->WaitForLoaded() reports in the next pass).
LoadChange ==
    /\ \E asset \in Referenced(settingsTables) :
        failed' = IF asset \in failed THEN failed \ {asset}
                  ELSE failed \cup {asset}
    /\ call' = "LoadChange"
    /\ passes' = 0
    /\ notifications' = 0
    /\ UNCHANGED <<CurrentCulture, CurrentLanguage, LocalizedStringTables,
                   settingsTables, initialized, observed, stepVars>>

\* LocalizationService::Init: the system language becomes the culture and
\* the language, then the tables are set up.
\* (ServiceInitNoSetup: the variant that does not set the tables up.)
ServiceInitNoSetup ==
    /\ ~initialized
    /\ call' = "Init"
    /\ \E name \in UserLocaleNames :
        /\ CurrentCulture' = CultureFromName(name)
        /\ CurrentLanguage' = CultureFromName(name)
    /\ NoPass
    /\ initialized' = TRUE
ServiceInit ==
    /\ ~initialized
    /\ call' = "Init"
    /\ \E name \in UserLocaleNames :
        /\ CurrentCulture' = CultureFromName(name)
        /\ CurrentLanguage' = CultureFromName(name)
        /\ OnLocalizationChanged(CultureFromName(name))
    /\ initialized' = TRUE

\* Localization::SetCurrentCulture.
\* (Variants: the culture replaced without a pass; the language replaced
\* too; the pass run for the culture instead of the language.)
SetCurrentCultureNoPass(value) ==
    /\ call' = "SetCurrentCulture"
    /\ CurrentCulture' = value
    /\ NoPass
    /\ UNCHANGED <<CurrentLanguage, initialized>>
SetCurrentCultureBoth(value) ==
    /\ call' = "SetCurrentCulture"
    /\ IF CultureEquals(CurrentCulture, value)
       THEN NoPass /\ UNCHANGED <<CurrentCulture, CurrentLanguage, initialized>>
       ELSE /\ CurrentCulture' = value
            /\ CurrentLanguage' = value
            /\ OnLocalizationChanged(value)
            /\ UNCHANGED initialized
SetCurrentCultureAsLanguage(value) ==
    /\ call' = "SetCurrentCulture"
    /\ IF CultureEquals(CurrentCulture, value)
       THEN NoPass /\ UNCHANGED <<CurrentCulture, CurrentLanguage, initialized>>
       ELSE /\ CurrentCulture' = value
            /\ OnLocalizationChanged(value)
            /\ UNCHANGED <<CurrentLanguage, initialized>>
SetCurrentCulture(value) ==
    /\ call' = "SetCurrentCulture"
    /\ IF CultureEquals(CurrentCulture, value)
       THEN NoPass /\ UNCHANGED <<CurrentCulture, CurrentLanguage, initialized>>
       ELSE /\ CurrentCulture' = value
            /\ OnLocalizationChanged(CurrentLanguage)
            /\ UNCHANGED <<CurrentLanguage, initialized>>

\* Localization::SetCurrentLanguage.
\* (Variants: without the equality guard; with the pass run before the
\* language is replaced.)
SetCurrentLanguagePassFirst(value) ==
    /\ call' = "SetCurrentLanguage"
    /\ IF CultureEquals(CurrentLanguage, value)
       THEN NoPass /\ UNCHANGED <<CurrentCulture, CurrentLanguage, initialized>>
       ELSE /\ OnLocalizationChanged(CurrentLanguage)
            /\ CurrentLanguage' = value
            /\ UNCHANGED <<CurrentCulture, initialized>>
SetCurrentLanguageNoGuard(value) ==
    /\ call' = "SetCurrentLanguage"
    /\ CurrentLanguage' = value
    /\ OnLocalizationChanged(value)
    /\ UNCHANGED <<CurrentCulture, initialized>>
SetCurrentLanguage(value) ==
    /\ call' = "SetCurrentLanguage"
    /\ IF CultureEquals(CurrentLanguage, value)
       THEN NoPass /\ UNCHANGED <<CurrentCulture, CurrentLanguage, initialized>>
       ELSE /\ CurrentLanguage' = value
            /\ OnLocalizationChanged(value)
            /\ UNCHANGED <<CurrentCulture, initialized>>

\* Localization::SetCurrentLanguageCulture.
\* (SetCurrentLanguageCultureEither: the variant whose guard is a disjunction.)
SetCurrentLanguageCultureEither(value) ==
    /\ call' = "SetCurrentLanguageCulture"
    /\ IF CultureEquals(CurrentCulture, value) \/ CultureEquals(CurrentLanguage, value)
       THEN NoPass /\ UNCHANGED <<CurrentCulture, CurrentLanguage, initialized>>
       ELSE /\ CurrentCulture' = value
            /\ CurrentLanguage' = value
            /\ OnLocalizationChanged(value)
            /\ UNCHANGED initialized
SetCurrentLanguageCulture(value) ==
    /\ call' = "SetCurrentLanguageCulture"
    /\ IF CultureEquals(CurrentCulture, value) /\ CultureEquals(CurrentLanguage, value)
       THEN NoPass /\ UNCHANGED <<CurrentCulture, CurrentLanguage, initialized>>
       ELSE /\ CurrentCulture' = value
            /\ CurrentLanguage' = value
            /\ OnLocalizationChanged(value)
            /\ UNCHANGED initialized

(***************************************************************************)
(* The program: from construction on, any calls in any order.              *)
(***************************************************************************)

\* No pass is in progress and every load has finished.
NoPassRunning ==
    /\ pc = "idle"
    /\ idx = 1
    /\ tables = <<>>
    /\ pending = {}
    /\ reads = {}

Init ==
    /\ CurrentCulture = LCID_None
    /\ CurrentLanguage = LCID_None
    /\ LocalizedStringTables = <<>>
    /\ settingsTables = <<>>
    /\ failed = {}
    /\ initialized = FALSE
    /\ call = "construct"
    /\ passes = 0
    /\ notifications = 0
    /\ observed = <<>>
    /\ NoPassRunning

Next ==
    \/ ServiceInit
    \/ Apply
    \/ Deserialize(MaxConfigured)
    \/ LoadChange
    \/ \E value \in Cultures : SetCurrentCulture(value)
    \/ \E value \in Cultures : SetCurrentLanguage(value)
    \/ \E value \in Cultures : SetCurrentLanguageCulture(value)

Spec == Init /\ [][Next]_vars

(***************************************************************************)
(* The resolution pass over every configured list: the settings are        *)
(* deserialized and the load outcomes settled before the service starts;   *)
(* the settings are applied, the service starts, then the callers set the  *)
(* language and culture.                                                   *)
(***************************************************************************)
InitResolve ==
    /\ CurrentCulture = LCID_None
    /\ CurrentLanguage = LCID_None
    /\ LocalizedStringTables = <<>>
    /\ settingsTables \in ListsUpTo(MaxTables)
    /\ failed \in SUBSET Referenced(settingsTables)
    /\ initialized = FALSE
    /\ call = "construct"
    /\ passes = 0
    /\ notifications = 0
    /\ observed = <<>>
    /\ NoPassRunning

NextResolve ==
    \/ ServiceInit
    \/ Apply
    \/ initialized /\ \E value \in Cultures : SetCurrentLanguageCulture(value)

SpecResolve == InitResolve /\ [][NextResolve]_vars

(***************************************************************************)
(* Single-threaded use with a fixed configured list and fixed load         *)
(* outcomes: the service is started, the settings applied and the setters  *)
(* called, in any order.                                                   *)
(***************************************************************************)
\* The references the fixed settings are made of.
FixedEntries == {"en_a", "zhCN", "zhHans", Null}

InitFixed ==
    /\ CurrentCulture = LCID_None
    /\ CurrentLanguage = LCID_None
    /\ LocalizedStringTables = <<>>
    /\ settingsTables \in ListsOver(FixedEntries, MaxFixed)
    /\ failed \in SUBSET Referenced(settingsTables)
    /\ initialized = FALSE
    /\ call = "construct"
    /\ passes = 0
    /\ notifications = 0
    /\ observed = <<>>
    /\ NoPassRunning

NextFixed ==
    \/ ServiceInit
    \/ Apply
    \/ \E value \in Cultures : SetCurrentCulture(value)
    \/ \E value \in Cultures : SetCurrentLanguage(value)
    \/ \E value \in Cultures : SetCurrentLanguageCulture(value)

SpecFixed == InitFixed /\ [][NextFixed]_vars

(***************************************************************************)
(* The pass statement by statement.  A load may still be in progress when  *)
(* the pass reaches its table: table->WaitForLoaded() then blocks the      *)
(* thread until the content system has finished the load.  Between the     *)
(* statements of the pass the content system and, in SpecRead, a reader    *)
(* on another thread take their steps.                                     *)
(***************************************************************************)

\* The references and the languages of these specifications.
StepEntries == {"en_a", "zhCN", "zhHans", Null}
StepCultures == {LCID_enGB, LCID_zhCN, LCID_fr}

\* table->WaitForLoaded() returns once the load has finished; there is no
\* timeout.
LoadFinished(e, pend) == e \notin pend

\* The call of Instance.OnLocalizationChanged(): the thread enters the pass.
EnterPass ==
    /\ pc' = "clear"
    /\ passes' = 1
    /\ notifications' = 0
    /\ reads' = {}
    /\ UNCHANGED <<LocalizedStringTables, observed, settingsTables, failed,
                   idx, tables, pending>>

\* LocalizationSettings::Apply is called.
CallApply ==
    /\ pc = "idle"
    /\ call' = "Apply"
    /\ EnterPass
    /\ UNCHANGED <<CurrentCulture, CurrentLanguage, initialized>>

\* Localization::SetCurrentLanguage is called.
CallSetCurrentLanguage(value) ==
    /\ pc = "idle"
    /\ call' = "SetCurrentLanguage"
    /\ IF CultureEquals(CurrentLanguage, value)
       THEN NoPass /\ UNCHANGED <<CurrentCulture, CurrentLanguage, initialized>>
       ELSE /\ CurrentLanguage' = value
            /\ EnterPass
            /\ UNCHANGED <<CurrentCulture, initialized>>

\* Instance.LocalizedStringTables.Clear() and the declaration of the empty
\* mapping.
StepClear ==
    /\ pc = "clear"
    /\ LocalizedStringTables' = Clear(LocalizedStringTables)
    /\ tables' = <<>>
    /\ idx' = 1
    /\ pc' = "collect"
    /\ UNCHANGED <<CurrentCulture, CurrentLanguage, settingsTables, failed,
                   initialized, call, passes, notifications, observed,
                   pending, reads>>

\* if (table && !table->WaitForLoaded()) tables[table->Locale].Add(table).
AddIfLoaded(pool, e, fail) ==
    IF IsLoaded(e, fail) THEN AddTable(pool, e) ELSE pool

\* The loop takes the next reference: the loop ends after the last one; a
\* null reference is passed over; a reference whose load is in progress
\* blocks the thread in WaitForLoaded; any other is added if it is loaded.
StepNext ==
    /\ pc = "collect"
    /\ IF idx > Len(settingsTables)
       THEN pc' = "pick" /\ UNCHANGED <<idx, tables>>
       ELSE IF settingsTables[idx] # Null
               /\ ~LoadFinished(settingsTables[idx], pending)
       THEN pc' = "wait" /\ UNCHANGED <<idx, tables>>
       ELSE /\ tables' = AddIfLoaded(tables, settingsTables[idx], failed)
            /\ idx' = idx + 1
            /\ pc' = "collect"
    /\ UNCHANGED <<CurrentCulture, CurrentLanguage, LocalizedStringTables,
                   settingsTables, failed, initialized, call, passes,
                   notifications, observed, pending, reads>>

\* The load the thread waits for has finished: WaitForLoaded returns and
\* the table is added if it is loaded.
\* (StepWaitTimeout: the variant whose wait gives up on a load in progress
\* and passes the table over.)
StepWaitTimeout ==
    /\ pc = "wait"
    /\ tables' = IF LoadFinished(settingsTables[idx], pending)
                 THEN AddIfLoaded(tables, settingsTables[idx], failed)
                 ELSE tables
    /\ idx' = idx + 1
    /\ pc' = "collect"
    /\ UNCHANGED <<CurrentCulture, CurrentLanguage, LocalizedStringTables,
                   settingsTables, failed, initialized, call, passes,
                   notifications, observed, pending, reads>>
StepWait ==
    /\ pc = "wait"
    /\ LoadFinished(settingsTables[idx], pending)
    /\ tables' = AddIfLoaded(tables, settingsTables[idx], failed)
    /\ idx' = idx + 1
    /\ pc' = "collect"
    /\ UNCHANGED <<CurrentCulture, CurrentLanguage, LocalizedStringTables,
                   settingsTables, failed, initialized, call, passes,
                   notifications, observed, pending, reads>>

\* The tables of the current language are picked and added to the active
\* set.
StepPick ==
    /\ pc = "pick"
    /\ LocalizedStringTables' =
            ApplyTable(LocalizedStringTables, tables,
                       PickTable(tables, CurrentLanguage))
    /\ pc' = "event"
    /\ UNCHANGED <<CurrentCulture, CurrentLanguage, settingsTables, failed,
                   initialized, call, passes, notifications, observed,
                   idx, tables, pending, reads>>

\* Localization::LocalizationChanged() is sent and the call returns.
StepEvent ==
    /\ pc = "event"
    /\ LET event == SendEvent(observed, observed, LocalizedStringTables)
       IN  /\ notifications' = event[1]
           /\ observed' = event[2]
    /\ tables' = <<>>
    /\ idx' = 1
    /\ pc' = "idle"
    /\ UNCHANGED <<CurrentCulture, CurrentLanguage, LocalizedStringTables,
                   settingsTables, failed, initialized, call, passes,
                   pending, reads>>

\* The thread runs the next statement of the pass.
PassStep == StepClear \/ StepNext \/ StepWait \/ StepPick \/ StepEvent

\* The content system finishes a load: the asset is loaded, or its load
\* has failed.
LoadFinish(asset) ==
    /\ asset \in pending
    /\ pending' = pending \ {asset}
    /\ \E ok \in BOOLEAN :
        failed' = IF ok THEN failed ELSE failed \cup {asset}
    /\ UNCHANGED <<CurrentCulture, CurrentLanguage, LocalizedStringTables,
                   settingsTables, initialized, call, passes, notifications,
                   observed, pc, idx, tables, reads>>

\* Between two calls the content system loads an asset anew whose load had
\* failed.
Reload(asset) ==
    /\ pc = "idle"
    /\ asset \in failed
    /\ failed' = failed \ {asset}
    /\ pending' = pending \cup {asset}
    /\ call' = "Reload"
    /\ passes' = 0
    /\ notifications' = 0
    /\ UNCHANGED <<CurrentCulture, CurrentLanguage, LocalizedStringTables,
                   settingsTables, initialized, observed, pc, idx, tables,
                   reads>>

\* A thread other than the one running the pass reads the active set.
Read ==
    /\ pc # "idle"
    /\ reads' = reads \cup {LocalizedStringTables}
    /\ UNCHANGED <<CurrentCulture, CurrentLanguage, LocalizedStringTables,
                   settingsTables, failed, initialized, call, passes,
                   notifications, observed, pc, idx, tables, pending>>

InitSteps ==
    /\ CurrentCulture = LCID_None
    /\ CurrentLanguage = LCID_None
    /\ LocalizedStringTables = <<>>
    /\ settingsTables \in ListsOver(StepEntries, MaxStepTables)
    /\ pending \in SUBSET Referenced(settingsTables)
    /\ failed \in SUBSET (Referenced(settingsTables) \ pending)
    /\ initialized = FALSE
    /\ call = "construct"
    /\ passes = 0
    /\ notifications = 0
    /\ observed = <<>>
    /\ pc = "idle"
    /\ idx = 1
    /\ tables = <<>>
    /\ reads = {}

NextSteps ==
    \/ CallApply
    \/ \E value \in StepCultures : CallSetCurrentLanguage(value)
    \/ PassStep
    \/ \E asset \in Assets : LoadFinish(asset)
    \/ \E asset \in Assets : Reload(asset)

SpecSteps == InitSteps /\ [][NextSteps]_vars

\* The thread of the pass keeps running, and every load in progress
\* finishes.
FairSpecSteps ==
    /\ SpecSteps
    /\ WF_vars(PassStep)
    /\ \A asset \in Assets : WF_vars(LoadFinish(asset))

NextRead == NextSteps \/ Read

SpecRead == InitSteps /\ [][NextRead]_vars

(***************************************************************************)
(* What the claims speak of.                                               *)
(***************************************************************************)

\* The configured tables that loaded and carry the locale tag, in the order
\* of the configured list: the pool's bucket of the tag.
LoadedTagged(tag) ==
    SelectSeq(settingsTables,
              LAMBDA e : e # Null /\ e \notin failed /\ Locale(e) = tag)

BucketExists(tag) == LoadedTagged(tag) # <<>>

\* The full name of the current language, and the name of its direct parent.
LanguageName == GetName(CurrentLanguage)
ParentName == GetName(GetParentLCID(CurrentLanguage))

\* A parent bucket the pass may use.
ParentBucketExists == HasChars(ParentName) /\ BucketExists(ParentName)

\* The last call ran a resolution pass; nothing has changed since.
AfterPass == passes = 1

\* The locale tag is the name of a sibling dialect of the current language.
IsSiblingTag(tag) ==
    /\ tag # LanguageName
    /\ HasChars(ParentName)
    /\ \E lcid \in KnownLCIDs :
        GetName(lcid) = tag /\ GetParentLCID(lcid) = GetParentLCID(CurrentLanguage)

\* C1: exact match has priority: when a bucket of the current language's
\* full name exists, a pass makes the active set exactly that bucket's tables,
\* also when buckets of the parent locale and of "en" exist.
C1_ExactMatch ==
    (AfterPass /\ BucketExists(LanguageName))
        => LocalizedStringTables = LoadedTagged(LanguageName)

C1_Witness ==
    /\ AfterPass
    /\ CurrentLanguage = LCID_zhCN
    /\ BucketExists("zh-CN") /\ BucketExists("zh-Hans") /\ BucketExists("en")
    /\ LocalizedStringTables = <<"zhCN">>

\* C2: parent fallback: with no bucket of the full name, a non-empty parent
\* name and a bucket of it, a pass makes the active set exactly the parent
\* bucket's tables, in preference to the "en" bucket.
C2_ParentFallback ==
    (AfterPass /\ ~BucketExists(LanguageName) /\ ParentBucketExists)
        => LocalizedStringTables = LoadedTagged(ParentName)

C2_Witness ==
    /\ AfterPass
    /\ CurrentLanguage = LCID_zhSG
    /\ ~BucketExists("zh-SG") /\ BucketExists("zh-Hans") /\ BucketExists("en")
    /\ LocalizedStringTables = <<"zhHans">>

\* C3: default fallback: with neither the exact nor the direct-parent bucket
\* and a bucket "en", a pass makes the active set exactly the "en" bucket;
\* the bucket of a sibling dialect is never selected.
C3_DefaultFallback ==
    /\ (AfterPass /\ ~BucketExists(LanguageName) /\ ~ParentBucketExists
            /\ BucketExists("en"))
        => LocalizedStringTables = LoadedTagged("en")
    /\ AfterPass =>
        \A i \in DOMAIN LocalizedStringTables :
            ~IsSiblingTag(Locale(LocalizedStringTables[i]))

C3_Witness ==
    /\ AfterPass
    /\ CurrentLanguage = LCID_zhSG
    /\ IsSiblingTag("zh-CN") /\ BucketExists("zh-CN")
    /\ ~BucketExists("zh-SG") /\ ~BucketExists("zh-Hans")
    /\ LocalizedStringTables = <<"en_a">>

\* C4: no matching locale: with no bucket of the language's name, none of
\* its direct parent's name and none of "en", a pass leaves the active set
\* empty and the change notification still fires.
C4_NoMatch ==
    (AfterPass /\ ~BucketExists(LanguageName) /\ ~ParentBucketExists
        /\ ~BucketExists("en"))
        => /\ LocalizedStringTables = <<>>
           /\ notifications = 1
           /\ observed = <<>>

C4_Witness ==
    /\ AfterPass
    /\ call = "SetCurrentLanguageCulture"
    /\ CurrentLanguage = LCID_fr
    /\ BucketExists("zh-Hans") /\ ~BucketExists("en")
    /\ LocalizedStringTables = <<>>
    /\ notifications = 1

\* C5: redundant language update: a SetCurrentLanguage call whose value
\* equals the current language runs no pass, sends no notification and
\* leaves the language, the culture and the active set as they are.
C5_RedundantLanguage ==
    [][\A value \in Cultures :
        (SetCurrentLanguage(value) /\ CultureEquals(CurrentLanguage, value))
            => /\ passes' = 0
               /\ notifications' = 0
               /\ UNCHANGED <<CurrentCulture, CurrentLanguage,
                              LocalizedStringTables>>]_vars

C5_Witness ==
    /\ call = "SetCurrentLanguage"
    /\ passes = 0
    /\ notifications = 0
    /\ CurrentLanguage = LCID_zhCN
    /\ LocalizedStringTables = <<"zhCN">>

\* C6: every pass sends the change notification exactly once, after the
\* active set is replaced, whether a bucket was selected or not: a call
\* sends as many notifications as it runs passes (so the totals agree), and
\* the subscribers of a pass's notification see the new active set.
C6_OneEventPerPass ==
    /\ notifications = passes
    /\ AfterPass => observed = LocalizedStringTables

C6_Witness ==
    /\ AfterPass
    /\ notifications = 1
    /\ call = "Apply"
    /\ LocalizedStringTables = <<"en_a">>
    /\ observed = <<"en_a">>

\* C7: in every reachable state the active set is empty or holds tables of
\* one locale tag only, all of them loaded tables of the configured list.
C7_OneLocale ==
    /\ \A i, j \in DOMAIN LocalizedStringTables :
        Locale(LocalizedStringTables[i]) = Locale(LocalizedStringTables[j])
    /\ \A i \in DOMAIN LocalizedStringTables :
        LocalizedStringTables[i] \in Referenced(settingsTables) \ failed

C7_Witness ==
    /\ call = "SetCurrentLanguageCulture"
    /\ Len(LocalizedStringTables) = 2
    /\ LocalizedStringTables[1] # LocalizedStringTables[2]
    /\ BucketExists("zh-CN")
    /\ CurrentLanguage # LCID_zhCN

\* C8: SetCurrentLanguageCulture(v) returns without a pass only when the
\* culture and the language both equal v already; in every other case it
\* leaves both equal to v and runs exactly one pass.
C8_LanguageCulture ==
    [][\A value \in Cultures :
        SetCurrentLanguageCulture(value)
            => IF CurrentCulture = value /\ CurrentLanguage = value
               THEN passes' = 0 /\ notifications' = 0 /\ UNCHANGED
                        <<CurrentCulture, CurrentLanguage, LocalizedStringTables>>
               ELSE /\ CurrentCulture' = value
                    /\ CurrentLanguage' = value
                    /\ passes' = 1
                    /\ notifications' = 1]_vars

C8_Witness ==
    /\ call = "SetCurrentLanguageCulture"
    /\ passes = 1
    /\ notifications = 1
    /\ CurrentCulture = LCID_zhCN
    /\ CurrentLanguage = LCID_zhCN
    /\ LocalizedStringTables # <<>>

\* C9: bucket order: after a pass that selects a bucket, the active set is
\* that bucket's loaded tables in the order of the configured list, however
\* tables of other locales are interleaved, none duplicated or dropped.
C9_BucketOrder ==
    (AfterPass /\ LocalizedStringTables # <<>>)
        => LocalizedStringTables = LoadedTagged(Locale(LocalizedStringTables[1]))

C9_Witness ==
    /\ AfterPass
    /\ settingsTables = <<"en_b", "zhCN", "en_a">>
    /\ failed = {}
    /\ LocalizedStringTables = <<"en_b", "en_a">>

\* C10: fallback never selects an unrelated locale: the tag of the tables
\* of a non-empty active set after a pass is the current language's full
\* name, its direct parent's name or "en".
C10_RelatedLocale ==
    AfterPass =>
        \A i \in DOMAIN LocalizedStringTables :
            Locale(LocalizedStringTables[i]) \in {LanguageName, ParentName, "en"}

C10_Witness ==
    /\ AfterPass
    /\ CurrentLanguage = LCID_zhSG
    /\ BucketExists("zh") /\ BucketExists("zh-CN") /\ BucketExists("en")
    /\ LocalizedStringTables = <<"en_b">>

\* The three-tier resolution of the current language against the loaded
\* configured tables: the bucket of its full name, else of its direct
\* parent's name, else of "en"; empty when none exists.
ThreeTier ==
    IF BucketExists(LanguageName) THEN LoadedTagged(LanguageName)
    ELSE IF ParentBucketExists THEN LoadedTagged(ParentName)
    ELSE LoadedTagged("en")

\* C11: SetCurrentCulture(v) returns without a pass when v equals the current
\* culture; otherwise it replaces the culture with v and runs a pass with
\* its notification, although the language has not changed.
C11_SetCulture ==
    [][\A value \in Cultures :
        SetCurrentCulture(value)
            => IF CurrentCulture = value
               THEN passes' = 0 /\ notifications' = 0 /\ UNCHANGED
                        <<CurrentCulture, CurrentLanguage, LocalizedStringTables>>
               ELSE /\ CurrentCulture' = value
                    /\ CurrentLanguage' = CurrentLanguage
                    /\ passes' = 1
                    /\ notifications' = 1]_vars

C11_Witness ==
    /\ call = "SetCurrentCulture"
    /\ passes = 1
    /\ notifications = 1
    /\ CurrentCulture = LCID_fr
    /\ CurrentLanguage = LCID_zhCN
    /\ LocalizedStringTables = <<"zhCN">>

\* C13: idempotence: a pass that follows a pass with no change in between
\* (same language, configured list and load outcomes) leaves the active set
\* as the first pass left it, and sends its notification too.
C13_Idempotence ==
    [][(AfterPass /\ Apply)
        => /\ LocalizedStringTables' = LocalizedStringTables
           /\ passes' = 1
           /\ notifications' = 1]_vars

C13_Witness ==
    /\ call = "Apply"
    /\ AfterPass
    /\ notifications = 1
    /\ initialized
    /\ LocalizedStringTables = <<"zhHans">>
    /\ observed = <<"zhHans">>

\* C14: startup seeding: Init sets the culture and the language to the
\* culture of the locale name the system reports and runs exactly one pass:
\* after Init the active set is the resolution for that locale and one
\* notification has been sent.
C14_Startup ==
    call = "Init"
        => /\ \E name \in UserLocaleNames :
                /\ CurrentCulture = CultureFromName(name)
                /\ CurrentLanguage = CultureFromName(name)
           /\ passes = 1
           /\ notifications = 1
           /\ LocalizedStringTables = ThreeTier

C14_Witness ==
    /\ call = "Init"
    /\ CurrentCulture = LCID_zhCN
    /\ CurrentLanguage = LCID_zhCN
    /\ BucketExists("zh-Hans") /\ BucketExists("en")
    /\ LocalizedStringTables = <<"zhHans">>
    /\ notifications = 1

\* C16: no stale entries: after a settings Apply the active set holds only
\* tables of the list configured now; a table removed from the configuration
\* does not stay in the active set.
C16_NoStale ==
    call = "Apply"
        => \A i \in DOMAIN LocalizedStringTables :
                LocalizedStringTables[i] \in Referenced(settingsTables)

C16_Witness ==
    /\ call = "Apply"
    /\ CurrentLanguage = LCID_zhCN
    /\ settingsTables = <<"en_a">>
    /\ LocalizedStringTables = <<"en_a">>

\* C18: frame of the locale state: the culture and the language change only
\* in Init and the setters; SetCurrentLanguage leaves the culture,
\* SetCurrentCulture leaves the language, and a pass (also the one of a
\* settings Apply) leaves both.
C18_LocaleFrame ==
    [][/\ (CurrentCulture' # CurrentCulture \/ CurrentLanguage' # CurrentLanguage)
            => call' \in {"Init", "SetCurrentCulture", "SetCurrentLanguage",
                          "SetCurrentLanguageCulture"}
       /\ call' = "SetCurrentLanguage" => CurrentCulture' = CurrentCulture
       /\ call' = "SetCurrentCulture" => CurrentLanguage' = CurrentLanguage
       /\ call' = "Apply" => UNCHANGED <<CurrentCulture, CurrentLanguage>>]_vars

C18_Witness ==
    /\ call = "SetCurrentLanguage"
    /\ passes = 1
    /\ CurrentCulture = LCID_fr
    /\ CurrentLanguage = LCID_zhSG

\* C19: with a fixed configured list and fixed load outcomes, after Init
\* and after any sequence of setter and Apply calls the active set is the
\* three-tier resolution of the current language against the loaded
\* configured tables; no call, a redundant one included, leaves it resolved
\* for an earlier language.
C19_AlwaysResolved ==
    call # "construct" => LocalizedStringTables = ThreeTier

C19_Witness ==
    /\ call = "SetCurrentLanguage"
    /\ passes = 0
    /\ initialized
    /\ CurrentLanguage = LCID_zhSG
    /\ CurrentCulture = LCID_enGB
    /\ BucketExists("en") /\ BucketExists("zh-Hans")
    /\ LocalizedStringTables = <<"zhHans">>

\* C20: the resolution depends on the language only: with the configured
\* list and the load outcomes unchanged since the last pass, a
\* SetCurrentCulture call with a new value leaves the contents and the order
\* of the active set as they were, and sends a notification.
C20_CultureIrrelevant ==
    [][\A value \in Cultures :
        (call # "construct" /\ SetCurrentCulture(value)
            /\ ~CultureEquals(CurrentCulture, value))
            => /\ LocalizedStringTables' = LocalizedStringTables
               /\ notifications' = 1]_vars

C20_Witness ==
    /\ call = "SetCurrentCulture"
    /\ passes = 1
    /\ notifications = 1
    /\ CurrentCulture = LCID_zhCN
    /\ CurrentLanguage = LCID_enGB
    /\ BucketExists("zh-CN")
    /\ LocalizedStringTables = <<"en_a">>

\* The references a pass can use: set, with a finished and successful load.
Usable == Assets \ (failed \cup pending)

\* The reference the loop of the pass is at.
Current == settingsTables[idx]

\* C12: unresolvable references.  A reference that is null or whose load
\* failed adds nothing to the pool and does not end the pass: the pool and
\* the active set hold only tables that are loaded, a completed pass has
\* resolved the remaining tables and sent its event, and each pass examines
\* every reference anew, whatever its outcome in an earlier pass.  A
\* reference whose load is in progress when the pass reaches it is waited
\* for, and is added to the pool of that pass if its load succeeds.
C12_Unresolvable ==
    /\ [](\A k \in DOMAIN tables : \A i \in DOMAIN tables[k] :
            tables[k][i] \in Usable)
    /\ [](\A i \in DOMAIN LocalizedStringTables :
            LocalizedStringTables[i] \in Usable)
    /\ []((pc = "idle" /\ passes = 1)
            => (notifications = 1 /\ LocalizedStringTables = ThreeTier))
    /\ [][(pc = "collect" /\ idx <= Len(settingsTables) /\ <<pc, idx>>' # <<pc, idx>>)
            => IF Current = Null \/ Current \in failed
               THEN pc' = "collect" /\ idx' = idx + 1 /\ tables' = tables
               ELSE IF Current \in pending
               THEN pc' = "wait" /\ idx' = idx /\ tables' = tables
               ELSE pc' = "collect" /\ idx' = idx + 1
                    /\ tables' = AddTable(tables, Current)]_vars
    /\ [][(pc = "wait" /\ pc' # "wait")
            => /\ Current \notin pending
               /\ pc' = "collect" /\ idx' = idx + 1
               /\ tables' = IF Current \in failed THEN tables
                            ELSE AddTable(tables, Current)]_vars

C12_Witness ==
    /\ pc = "idle"
    /\ call = "SetCurrentLanguage"
    /\ passes = 1
    /\ notifications = 1
    /\ CurrentLanguage = LCID_zhCN
    /\ settingsTables = <<"zhCN", "en_a">>
    /\ "zhCN" \in failed
    /\ LocalizedStringTables = <<"en_a">>

\* C12 as first stated: a reference whose load was still in progress when
\* the pass reached it adds nothing to the pool of that pass.
C12_PendingSkipped ==
    [][pc = "wait" => tables' = tables]_vars

\* C15: atomic swap.  Every value of the active set that a reader on
\* another thread saw while a pass ran is the complete set from before the
\* pass or the complete set the pass produced.
C15_AtomicSwap ==
    pc = "event" => reads \subseteq {observed, LocalizedStringTables}

\* C17: completion of a pass.  A call that runs a pass returns only after
\* the pass is complete and its event sent, and no event is sent before;
\* when every load in progress finishes, every pass that was entered
\* returns with its event sent; and while the load it waits for has not
\* finished the pass stays where it is and sends nothing.
C17_Completion ==
    /\ []((pc = "idle" /\ passes = 1)
            => (notifications = 1 /\ observed = LocalizedStringTables))
    /\ [](pc # "idle" => (passes = 1 /\ notifications = 0))
    /\ (pc # "idle") ~> (pc = "idle" /\ notifications = 1)
    /\ [][(pc = "wait" /\ Current \in pending')
            => (pc' = "wait" /\ idx' = idx /\ notifications' = 0
                /\ LocalizedStringTables' = LocalizedStringTables)]_vars

C17_Witness ==
    /\ call = "SetCurrentLanguage"
    /\ pc = "wait"
    /\ Current \in pending
    /\ notifications = 0
    /\ observed = <<"en_a">>
    /\ LocalizedStringTables = <<>>

====
